---- MODULE Spec2Model ----
(***************************************************************************)
(* ZoneWise multi-agent property analysis: the router-driven sequential    *)
(* workflow (create_analysis_workflow / run_property_analysis), the        *)
(* phased-parallel runner (run_parallel_analysis), the router and the      *)
(* synthesizer of packages/agent/langgraph_workflow.py.                    *)
(*                                                                         *)
(* Optional values (Python's `x | None`) are sequences of length at most   *)
(* one: None is <<>> and a value v is <<v>>.                               *)
(***************************************************************************)
EXTENDS Integers, Sequences, FiniteSets, TLC

VARIABLES
    mode,              \* which entry point runs: "sequential", "parallel", "router",
                       \* "synth", "cache", "parse"
    pc,                \* position of the driving code
    next_agent,        \* last answer of route_to_next_agent (the node to run next)
    steps,             \* supersteps executed by the compiled graph
    parcel_id,         \* AnalysisState["parcel_id"]
    property_data,     \* AnalysisState["property_data"] (PropertyData)
    completed_agents,  \* AnalysisState["completed_agents"]
    errors,            \* AnalysisState["errors"]
    messages,          \* AnalysisState["messages"]
    final_report,      \* AnalysisState["final_report"]
    timestamp,         \* AnalysisState["timestamp"]
    task,              \* parallel mode: state of each asyncio task
    invoked,           \* history: how many times each stage was invoked
    failed,            \* history: how many invocations of each stage failed
    synth_runs,        \* history: how many times synthesizer_node ran
    deps,              \* the AgentDependencies instance in use
    store,             \* the skills directory: manifest file and skill documents
    io,                \* history: reads of the manifest and of each skill document
    tool_result,       \* what the last tool or parser call returned
    phase2_dims,       \* parallel mode: the dims argument handed to the phase-2 tasks
    first_run          \* paired runs: what the finished sequential run handed over

vars == <<mode, pc, next_agent, steps, parcel_id, property_data, completed_agents,
          errors, messages, final_report, timestamp, task, invoked, failed, synth_runs,
          deps, store, io, tool_result, phase2_dims, first_run>>

-----------------------------------------------------------------------------
(* Bounds of the model *)

\* Supersteps the compiled graph executes before it gives up on a run that has not
\* reached END and raises out of ainvoke (the executor's recursion limit, 25 unless
\* the config sets one; run_property_analysis passes only a thread_id). The model
\* runs with a smaller limit; nothing below depends on its value.
MaxSupersteps == 12

\* Longest completed_agents list handed to the router on its own
MaxCompletedLen == 5

\* Largest permit_risk_score handed to the synthesizer on its own
MaxRiskScore == 60

\* Tool calls made on one AgentDependencies
MaxToolCalls == 4

\* Lines of a text handed to parse_front_matter on its own
MaxDocLines == 4

-----------------------------------------------------------------------------
(* Values *)

None == <<>>
Some(v) == <<v>>

\* Python truthiness of an optional number: None and 0 are falsy.
Truthy(opt) == opt # None /\ opt[1] # 0

Range(s) == {s[i] : i \in DOMAIN s}

Stages == {"zoning", "valuation", "permit", "envelope"}

ParcelIds == {"2512345", "0000077"}

\* str(e) of the exception an agent invocation raises
ErrorDetail == "CapabilityError"

\* PropertyData(parcel_id=parcel_id): every other field at its declared default
NewPropertyData(pid) ==
    [ parcel_id          |-> pid,
      address            |-> None,
      zoning_district    |-> None,
      zoning_dims        |-> None,
      permitted_uses     |-> <<>>,
      arv                |-> None,
      assessed_value     |-> None,
      max_bid            |-> None,
      comparable_sales   |-> <<>>,
      permit_history     |-> <<>>,
      open_violations    |-> <<>>,
      permit_risk_score  |-> 0,
      max_buildable_sqft |-> None,
      max_height         |-> None,
      envelope_generated |-> FALSE,
      avg_sun_hours      |-> None,
      shadow_impact      |-> None ]

ZeroCount == [s \in Stages |-> 0]
NoTasks == [s \in Stages |-> "none"]

\* a Python dict: a function from its keys; d[k] = v
EmptyDict == [k \in {} |-> k]
DictSetEvictsOthers(d, key, v) == [k \in {key} |-> v]
DictSet(d, key, v) == [k \in DOMAIN d \cup {key} |-> IF k = key THEN v ELSE d[k]]

\* the skills the manifest lists, and the names a caller may ask for
CatalogSkills == {"zoning-analysis", "zoning-analysis:overlay"}
SkillNames == CatalogSkills \cup {"no-such-skill"}

\* AgentDependencies(): no manifest, empty caches
FreshDeps == [manifest |-> None, loaded_skills |-> EmptyDict,
              loaded_references |-> EmptyDict]

\* the line that opens and closes a front-matter block
Marker == "---"

\* a SKILL.md file, line by line: one that opens with a front-matter block holding
\* a YAML mapping ("valid") or a line of plain text ("scalar"), or with no block at
\* all, followed by its body text
Document(front, body) ==
    CASE front = "valid"  -> <<Marker, "name: skill", Marker, body>>
      [] front = "scalar" -> <<Marker, "overview", Marker, body>>
      [] OTHER            -> <<body>>

\* the reference file names a caller may ask for, and the files under each skill's
\* references directory (names are plain strings: nothing restricts their characters)
RefNames == {"dims.md", "overlay:dims.md"}
DefaultRefs ==
    [n \in CatalogSkills |->
        [r \in RefNames |->
            CASE n = "zoning-analysis" /\ r = "dims.md" -> Some("base dims")
              [] n = "zoning-analysis" /\ r = "overlay:dims.md" -> Some("base overlay dims")
              [] n = "zoning-analysis:overlay" /\ r = "dims.md" -> Some("overlay dims")
              [] OTHER -> None]]

\* SkillMetadata.references of each skill the manifest lists: one skill declares
\* one of its two reference files, the other takes the default, the empty list
DeclaredReferences ==
    [n \in CatalogSkills |-> IF n = "zoning-analysis" THEN {"dims.md"} ELSE {}]

\* a skills directory with its manifest and every listed SKILL.md in place
DefaultStore ==
    [manifest |-> "ok",
     skills |-> [n \in CatalogSkills |-> Some(Document("valid", "v1"))],
     refs |-> DefaultRefs]

ZeroIO == [manifest_reads |-> 0, skill_reads |-> [n \in SkillNames |-> 0],
           reference_reads |-> [k \in SkillNames \X RefNames |-> 0], calls |-> 0]

NoResult == [tool |-> "none"]

\* the variables of the skill cache, which the parallel runner and the router
\* never touch
CacheFrame == UNCHANGED <<deps, store, io, tool_result>>

-----------------------------------------------------------------------------
(* Router *)

\* agent_order of route_to_next_agent
agent_order_swapped == <<"zoning", "permit", "valuation", "envelope">>
agent_order == <<"zoning", "valuation", "permit", "envelope">>

\* the for loop over agent_order, from index i, and the two returns after it
RECURSIVE RouteFrom(_, _)
RouteFrom(i, completed) ==
    IF i > Len(agent_order)
    THEN IF "synthesizer" \notin Range(completed) THEN "synthesizer" ELSE "end"
    ELSE IF agent_order[i] \notin Range(completed)
         THEN agent_order[i]
         ELSE RouteFrom(i + 1, completed)

route_to_next_agent_last_only(completed) ==
    IF completed = <<>> THEN agent_order[1]
    ELSE RouteFrom(1, <<completed[Len(completed)]>>)

route_to_next_agent(completed) == RouteFrom(1, completed)

-----------------------------------------------------------------------------
(* Synthesizer: the recommendation rule and the report *)

recommendation_depends_on_envelope(pd) ==
    IF Truthy(pd.arv) /\ Truthy(pd.max_bid) /\ pd.envelope_generated
    THEN IF pd.permit_risk_score < 30 /\ pd.open_violations = <<>> THEN "BID"
         ELSE IF pd.permit_risk_score < 50 THEN "REVIEW"
         ELSE "SKIP"
    ELSE "INCOMPLETE"

\* the if/elif/else of synthesizer_node that picks the recommendation
recommendation(pd) ==
    IF Truthy(pd.arv) /\ Truthy(pd.max_bid)
    THEN IF pd.permit_risk_score < 30 /\ pd.open_violations = <<>> THEN "BID"
         ELSE IF pd.permit_risk_score < 50 THEN "REVIEW"
         ELSE "SKIP"
    ELSE "INCOMPLETE"

\* the text appended to report_lines for each recommendation
recommendation_line(label) ==
    CASE label = "BID"    -> "BID - Low risk property with good fundamentals"
      [] label = "REVIEW" -> "REVIEW - Moderate risk, investigate further"
      [] label = "SKIP"   -> "SKIP - High risk or insufficient data"
      [] label = "INCOMPLETE" -> "INCOMPLETE - Insufficient data for recommendation"

\* f"{x or 'N/A'}" and the `... if x else "N/A"` lines: a falsy value prints N/A
OrNA(opt) == IF Truthy(opt) THEN ToString(opt[1]) ELSE "N/A"

ErrorLinesFirstOnly(errs) ==
    IF errs = <<>> THEN <<>> ELSE <<"- " \o Head(errs)>>

\* f"- {e}" for e in errors
RECURSIVE ErrorLines(_)
ErrorLines(errs) ==
    IF errs = <<>> THEN <<>>
    ELSE <<"- " \o Head(errs)>> \o ErrorLines(Tail(errs))

\* report_lines of synthesizer_node; the report is these lines joined by "\n"
report_lines(pd, ts, errs) ==
    << "# ZoneWise Property Analysis Report",
       "**Parcel ID:** " \o pd.parcel_id,
       "**Generated:** " \o ts,
       "",
       "## Zoning Summary",
       "- **District:** " \o (IF pd.zoning_district # None THEN pd.zoning_district[1]
                                                          ELSE "Unknown"),
       "- **Max Height:** " \o OrNA(pd.max_height) \o " ft",
       IF Truthy(pd.max_buildable_sqft)
          THEN "- **Max Buildable:** " \o ToString(pd.max_buildable_sqft[1]) \o " sqft"
          ELSE "- **Max Buildable:** N/A",
       "",
       "## Valuation Summary",
       IF Truthy(pd.arv) THEN "- **Estimated ARV:** $" \o ToString(pd.arv[1])
                         ELSE "- **Estimated ARV:** N/A",
       IF Truthy(pd.max_bid) THEN "- **Max Bid (70% rule):** $" \o ToString(pd.max_bid[1])
                             ELSE "- **Max Bid:** N/A",
       "- **Comparable Sales:** " \o ToString(Len(pd.comparable_sales)) \o " found",
       "",
       "## Permit Analysis",
       "- **Permit Risk Score:** " \o ToString(pd.permit_risk_score) \o "/100",
       "- **Open Violations:** " \o ToString(Len(pd.open_violations)),
       "- **Historical Permits:** " \o ToString(Len(pd.permit_history)),
       "",
       "## Sun/Shadow Analysis",
       "- **Average Sun Hours:** " \o OrNA(pd.avg_sun_hours) \o " hrs/day",
       "- **3D Envelope:** " \o (IF pd.envelope_generated THEN "Generated"
                                                          ELSE "Not generated"),
       "",
       "## Recommendation",
       recommendation_line(recommendation(pd)) >>
    \o (IF errs # <<>> THEN <<"", "## Errors">> \o ErrorLines(errs) ELSE <<>>)

FormattedNumbersUnguarded(pd) == <<pd.max_buildable_sqft, pd.arv, pd.max_bid>>

\* the values that reach a numeric format spec (":,.0f") while report_lines is built:
\* each of the three formatted lines is the first arm of a conditional expression
\* and is evaluated only when its field is truthy
FormattedNumbers(pd) ==
    (IF Truthy(pd.max_buildable_sqft) THEN <<pd.max_buildable_sqft>> ELSE <<>>)
    \o (IF Truthy(pd.arv) THEN <<pd.arv>> ELSE <<>>)
    \o (IF Truthy(pd.max_bid) THEN <<pd.max_bid>> ELSE <<>>)

\* a numeric format spec raises on None (TypeError) and on the 'N/A' that
\* `x or 'N/A'` puts in place of a falsy x (ValueError)
FormatRaises(pd) == \E i \in DOMAIN FormattedNumbers(pd) : ~Truthy(FormattedNumbers(pd)[i])

\* synthesizer_node: writes final_report and one narration; in the graph its edge
\* leads to END, in run_parallel_analysis its return ends the run. Nothing in it
\* catches an exception: one raised while the report is built leaves the function.
synthesizer_node ==
    /\ pc = "node"
    /\ next_agent = "synthesizer"
    /\ IF FormatRaises(property_data)
       THEN /\ pc' = "raised"
            /\ UNCHANGED <<final_report, messages>>
       ELSE /\ final_report' = Some(report_lines(property_data, timestamp, errors))
            /\ messages' = Append(messages,
                   "[Synthesizer] Generated final report with recommendation: "
                       \o recommendation_line(recommendation(property_data)))
            /\ pc' = "END"
    /\ synth_runs' = synth_runs + 1
    /\ steps' = IF mode = "sequential" THEN steps + 1 ELSE steps
    /\ UNCHANGED <<mode, next_agent, parcel_id, property_data, completed_agents,
                   errors, timestamp, task, invoked, failed, phase2_dims, first_run>>
    /\ CacheFrame

-----------------------------------------------------------------------------
(* Skill loader: the pure functions of zonewise_agent.py *)

\* "\n".join(lines)
RECURSIVE Join(_)
Join(lines) ==
    IF lines = <<>> THEN ""
    ELSE IF Len(lines) = 1 THEN lines[1]
    ELSE lines[1] \o "\n" \o Join(Tail(lines))

\* str.strip() on a text given line by line: blank lines at both ends go
RECURSIVE Strip(_)
Strip(lines) ==
    IF lines = <<>> THEN <<>>
    ELSE IF Head(lines) = "" THEN Strip(Tail(lines))
    ELSE IF lines[Len(lines)] = "" THEN Strip(SubSeq(lines, 1, Len(lines) - 1))
    ELSE lines

\* the lines a text is made of here: the marker, a YAML mapping entry, a line that
\* opens a flow sequence and never closes it, a blank line; any other line is plain
\* text
MapLine == "name: skill"
BrokenLine == "key: ["

\* yaml.safe_load of the lines between the markers: nothing gives None, mapping
\* entries give a dict, plain text gives a str; an unclosed flow sequence, or plain
\* text next to mapping entries, raises YAMLError
yaml_safe_load(block) ==
    LET ls == SelectSeq(block, LAMBDA l : l # "")
    IN IF ls = <<>> THEN [kind |-> "null", entries |-> {}]
       ELSE IF \E i \in DOMAIN ls : ls[i] = BrokenLine THEN [kind |-> "error", entries |-> {}]
       ELSE IF \A i \in DOMAIN ls : ls[i] = MapLine THEN [kind |-> "map", entries |-> Range(ls)]
       ELSE IF \A i \in DOMAIN ls : ls[i] # MapLine
            THEN [kind |-> "scalar", entries |-> Range(ls)]
       ELSE [kind |-> "error", entries |-> {}]

\* the empty dict {}
NoFrontMatter == [kind |-> "map", entries |-> {}]

\* content.split("---", 2) of a text that starts with the marker and holds a second
\* one: the lines between the two, and the lines after the second
SecondMarker(content) ==
    CHOOSE i \in 2..Len(content) :
        content[i] = Marker /\ \A j \in 2..(i - 1) : content[j] # Marker

parse_front_matter_any_block(content) ==
    IF Cardinality({i \in DOMAIN content : content[i] = Marker}) >= 2
    THEN LET first == CHOOSE i \in DOMAIN content :
                          content[i] = Marker /\ \A j \in 1..(i - 1) : content[j] # Marker
             second == CHOOSE i \in (first + 1)..Len(content) :
                          content[i] = Marker
                          /\ \A j \in (first + 1)..(i - 1) : content[j] # Marker
             metadata == yaml_safe_load(SubSeq(content, first + 1, second - 1))
         IN IF metadata.kind = "error"
            THEN [front_matter |-> NoFrontMatter, body |-> content]
            ELSE [front_matter |-> IF metadata.kind = "null" THEN NoFrontMatter
                                                            ELSE metadata,
                  body |-> Strip(SubSeq(content, second + 1, Len(content)))]
    ELSE [front_matter |-> NoFrontMatter, body |-> content]

\* parse_front_matter(content): a text that starts with the marker and has at least
\* three parts is split; the middle part is parsed (`metadata or {}`) and the rest,
\* stripped, is the body; a YAMLError is passed over. Everything else returns
\* ({}, content).
parse_front_matter(content) ==
    IF content # <<>> /\ content[1] = Marker
          /\ Cardinality({i \in DOMAIN content : content[i] = Marker}) >= 2
    THEN LET second == SecondMarker(content)
             metadata == yaml_safe_load(SubSeq(content, 2, second - 1))
         IN IF metadata.kind = "error"
            THEN [front_matter |-> NoFrontMatter, body |-> content]
            ELSE [front_matter |-> IF metadata.kind = "null" THEN NoFrontMatter
                                                            ELSE metadata,
                  body |-> Strip(SubSeq(content, second + 1, Len(content)))]
    ELSE [front_matter |-> NoFrontMatter, body |-> content]

\* load_skill_content, once the skill is in the manifest and its file exists: the
\* LoadedSkill built from the parsed text
load_skill_content(name, content) ==
    [name |-> name,
     content |-> Join(parse_front_matter(content).body),
     front_matter |-> parse_front_matter(content).front_matter.entries]

\* LoadedSkill(name=..., content=body, front_matter=front_matter) validates its
\* fields: front_matter must be a dict, anything else raises ValidationError, which
\* is a ValueError
LoadedSkillValid(content) == parse_front_matter(content).front_matter.kind = "map"
LoadedSkillInvalid == "1 validation error for LoadedSkill"

\* the if of both tools that loads the manifest when deps holds none; the manifest
\* file is read only here
WithManifest(d) ==
    IF d.manifest = None THEN [d EXCEPT !.manifest = Some(CatalogSkills)] ELSE d

ManifestReads(d) == IF d.manifest = None THEN 1 ELSE 0

\* load_manifest: reads of the manifest file one call makes (none if the file does
\* not exist)
FileReads(st) == IF st.manifest = "ok" THEN 1 ELSE 0

\* the skills the model asks load_skill for during one agent.run of a stage node
StageLoads == SUBSET {"zoning-analysis"}

\* deps after agent.run made those load_skill calls on it: the first call loads the
\* manifest into deps, each call caches its skill
AfterLoads(d, names) ==
    IF names = {} THEN d
    ELSE [WithManifest(d) EXCEPT
            !.loaded_skills = [n \in DOMAIN @ \cup names |->
                                 IF n \in DOMAIN @ THEN @[n]
                                 ELSE load_skill_content(n, store.skills[n][1])]]

\* the reads those calls made: the manifest if deps held none, and the file of each
\* skill deps had not cached
ReadsOfLoads(d, names) ==
    [manifest |-> IF names = {} THEN 0 ELSE ManifestReads(d),
     skills |-> [n \in SkillNames |->
                   IF n \in names /\ n \notin DOMAIN d.loaded_skills THEN 1 ELSE 0]]

-----------------------------------------------------------------------------
(* Stage nodes of the sequential graph *)

Bump(f, s) == [f EXCEPT ![s] = @ + 1]

\* what every stage node leaves alone
StageFrame == UNCHANGED <<mode, next_agent, parcel_id, final_report, timestamp, task,
                          synth_runs, store, tool_result, phase2_dims, first_run>>

\* entry of a stage node: the graph runs the node the router chose
StageEntry(stage) ==
    /\ mode = "sequential"
    /\ pc = "node"
    /\ next_agent = stage
    /\ invoked' = Bump(invoked, stage)
    /\ steps' = steps + 1
    /\ pc' = "route"
    /\ StageFrame

StageSucceedsWithoutNarration(stage, narration) ==
    /\ store.manifest = "ok"
    /\ completed_agents' = Append(completed_agents, stage)
    /\ \E names \in StageLoads :
          LET reads == ReadsOfLoads(FreshDeps, names)
          IN /\ deps' = AfterLoads(FreshDeps, names)
             /\ io' = [io EXCEPT
                        !.manifest_reads = @ + 1 + reads.manifest,
                        !.skill_reads = [n \in SkillNames |-> @[n] + reads.skills[n]]]
    /\ UNCHANGED <<errors, failed, messages>>

\* the try body ran to its end: create_agent() read the manifest, agent.run used
\* the node's own deps = AgentDependencies(), narration appended, stage marked
\* completed
StageSucceeds(stage, narration) ==
    /\ store.manifest = "ok"
    /\ messages' = Append(messages, narration)
    /\ completed_agents' = Append(completed_agents, stage)
    /\ \E names \in StageLoads :
          LET reads == ReadsOfLoads(FreshDeps, names)
          IN /\ deps' = AfterLoads(FreshDeps, names)
             /\ io' = [io EXCEPT
                        !.manifest_reads = @ + 1 + reads.manifest,
                        !.skill_reads = [n \in SkillNames |-> @[n] + reads.skills[n]]]
    /\ UNCHANGED <<errors, failed>>

StageFailsOverwritesErrors(stage, prefix) ==
    /\ errors' = <<prefix \o " agent error: " \o ErrorDetail>>
    /\ failed' = Bump(failed, stage)
    /\ io' = [io EXCEPT !.manifest_reads = @ + FileReads(store)]
    /\ deps' = FreshDeps
    /\ UNCHANGED <<property_data, messages, completed_agents>>

StageFailsMarksCompleted(stage, prefix) ==
    /\ errors' = Append(errors, prefix \o " agent error: " \o ErrorDetail)
    /\ failed' = Bump(failed, stage)
    /\ completed_agents' = Append(completed_agents, stage)
    /\ io' = [io EXCEPT !.manifest_reads = @ + FileReads(store)]
    /\ deps' = FreshDeps
    /\ UNCHANGED <<property_data, messages>>

\* create_agent() raised (load_manifest found no manifest file and read nothing) or,
\* with the manifest read, agent.run() raised before any tool call: the except
\* clause appends one note
StageFails(stage, prefix) ==
    /\ errors' = Append(errors, prefix \o " agent error: " \o ErrorDetail)
    /\ failed' = Bump(failed, stage)
    /\ io' = [io EXCEPT !.manifest_reads = @ + FileReads(store)]
    /\ deps' = FreshDeps
    /\ UNCHANGED <<property_data, messages, completed_agents>>

zoning_agent_node ==
    /\ StageEntry("zoning")
    /\ \/ /\ property_data' = [property_data EXCEPT
                  !.zoning_district = Some("RS-10"),
                  !.zoning_dims = Some([max_height_ft |-> 35, far_pct |-> 35,
                                        front_setback_ft |-> 25, side_setback_in |-> 90,
                                        rear_setback_ft |-> 20])]
          /\ StageSucceeds("zoning",
                 "[Zoning Agent] Analyzed zoning for " \o parcel_id \o ": RS-10")
       \/ StageFails("zoning", "Zoning")

valuation_agent_node_sets_risk ==
    /\ StageEntry("valuation")
    /\ \/ /\ property_data' = [property_data EXCEPT
                  !.arv = Some(325000),
                  !.max_bid = Some(165000),
                  !.comparable_sales = <<"123 Main St", "456 Oak Ave">>,
                  !.permit_risk_score = 40]
          /\ StageSucceeds("valuation",
                 "[Valuation Agent] ARV: $325000, Max Bid: $165000")
       \/ StageFails("valuation", "Valuation")

valuation_agent_node ==
    /\ StageEntry("valuation")
    /\ \/ /\ property_data' = [property_data EXCEPT
                  !.arv = Some(325000),
                  !.max_bid = Some(165000),
                  !.comparable_sales = <<"123 Main St", "456 Oak Ave">>]
          /\ StageSucceeds("valuation",
                 "[Valuation Agent] ARV: $325000, Max Bid: $165000")
       \/ StageFails("valuation", "Valuation")

permit_agent_node ==
    /\ StageEntry("permit")
    /\ \/ /\ property_data' = [property_data EXCEPT
                  !.permit_history = <<"Roofing", "Electrical">>,
                  !.open_violations = <<>>,
                  !.permit_risk_score = 15]
          /\ StageSucceeds("permit",
                 "[Permit Agent] Risk score: 15/100, No open violations")
       \/ StageFails("permit", "Permit")

envelope_agent_node_partial_update ==
    /\ StageEntry("envelope")
    /\ \/ /\ LET dims == IF property_data.zoning_dims # None
                         THEN property_data.zoning_dims[1]
                         ELSE [max_height_ft |-> 35]
             IN property_data' = [property_data EXCEPT
                  !.max_buildable_sqft = Some(2500),
                  !.max_height = Some(dims.max_height_ft),
                  !.envelope_generated = TRUE,
                  !.avg_sun_hours = Some(85)]
          /\ StageSucceeds("envelope",
                 "[Envelope Agent] Max buildable: 2500 sqft, Generated 3D envelope")
       \/ /\ property_data' = [property_data EXCEPT !.max_buildable_sqft = Some(2500)]
          /\ errors' = Append(errors, "Envelope agent error: " \o ErrorDetail)
          /\ failed' = Bump(failed, "envelope")
          /\ io' = [io EXCEPT !.manifest_reads = @ + FileReads(store)]
          /\ deps' = FreshDeps
          /\ UNCHANGED <<messages, completed_agents>>

envelope_agent_node ==
    /\ StageEntry("envelope")
    /\ \/ /\ LET dims == IF property_data.zoning_dims # None
                         THEN property_data.zoning_dims[1]
                         ELSE [max_height_ft |-> 35]   \* dims.get("max_height_ft", 35)
             IN property_data' = [property_data EXCEPT
                  !.max_buildable_sqft = Some(2500),
                  !.max_height = Some(dims.max_height_ft),
                  !.envelope_generated = TRUE,
                  !.avg_sun_hours = Some(85)]          \* 8.5 h, in tenths
          /\ StageSucceeds("envelope",
                 "[Envelope Agent] Max buildable: 2500 sqft, Generated 3D envelope")
       \/ StageFails("envelope", "Envelope")

-----------------------------------------------------------------------------
(* Sequential runner: run_property_analysis drives the compiled graph *)

\* run_property_analysis: builds initial_state and calls workflow.ainvoke
run_property_analysis ==
    /\ mode = "sequential"
    /\ pc = "start"
    /\ messages' = <<"Analyze property: " \o parcel_id>>
    /\ property_data' = NewPropertyData(parcel_id)
    /\ completed_agents' = <<>>
    /\ errors' = <<>>
    /\ final_report' = None
    /\ pc' = "route"
    /\ UNCHANGED <<mode, next_agent, steps, parcel_id, timestamp, task, invoked, failed,
                   synth_runs, phase2_dims, first_run>>
    /\ CacheFrame

\* a conditional edge of the graph (from __start__ and from each stage node):
\* route_to_next_agent picks the next node; the executor stops a run that needs
\* more than MaxSupersteps supersteps by raising out of ainvoke
conditional_edge ==
    /\ mode = "sequential"
    /\ pc = "route"
    /\ LET target == route_to_next_agent(completed_agents)
       IN /\ next_agent' = target
          /\ pc' = IF target = "end" THEN "END"
                   ELSE IF steps >= MaxSupersteps THEN "raised"
                   ELSE "node"
    /\ UNCHANGED <<mode, steps, parcel_id, property_data, completed_agents, errors,
                   messages, final_report, timestamp, task, invoked, failed, synth_runs,
                   phase2_dims, first_run>>
    /\ CacheFrame

-----------------------------------------------------------------------------
(* Parallel runner: run_parallel_analysis *)

Phase1 == {"zoning", "permit"}
Phase2 == {"valuation", "envelope"}
SettledAny(ts) == \E t \in ts : task[t] \in {"ok", "exc"}

\* asyncio.gather returns when every task it was given has returned or raised
Settled(ts) == \A t \in ts : task[t] \in {"ok", "exc"}

\* property_data = PropertyData(...); errors = []; the two phase-1 tasks are created
run_parallel_analysis ==
    /\ mode = "parallel"
    /\ pc = "start"
    /\ property_data' = NewPropertyData(parcel_id)
    /\ errors' = <<>>
    /\ task' = [t \in Stages |-> IF t \in Phase1 THEN "running" ELSE "none"]
    /\ invoked' = [t \in Stages |-> IF t \in Phase1 THEN invoked[t] + 1 ELSE invoked[t]]
    /\ pc' = "phase1"
    /\ UNCHANGED <<mode, next_agent, steps, parcel_id, completed_agents, messages,
                   final_report, timestamp, failed, synth_runs, phase2_dims, first_run>>
    /\ CacheFrame

\* a task (run_zoning_analysis, run_permit_analysis, run_valuation_analysis,
\* run_envelope_analysis) returns its dict or raises; gather(return_exceptions=True)
\* keeps either outcome as the task's result
task_settles(t) ==
    /\ mode = "parallel"
    /\ task[t] = "running"
    /\ \/ /\ task' = [task EXCEPT ![t] = "ok"]
          /\ UNCHANGED failed
       \/ /\ task' = [task EXCEPT ![t] = "exc"]
          /\ failed' = Bump(failed, t)
    /\ UNCHANGED <<mode, pc, next_agent, steps, parcel_id, property_data,
                   completed_agents, errors, messages, final_report, timestamp,
                   invoked, synth_runs, phase2_dims, first_run>>
    /\ CacheFrame

run_zoning_analysis == task_settles("zoning")
run_permit_analysis == task_settles("permit")
run_valuation_analysis == task_settles("valuation")
run_envelope_analysis == task_settles("envelope")

\* errors.append(f"<Stage> error: {result}") when the result is an exception
NoteIfFailed(errs, t, prefix) ==
    IF task[t] = "exc" THEN Append(errs, prefix \o " error: " \o ErrorDetail) ELSE errs

gather_phase1_propagates ==
    /\ mode = "parallel"
    /\ pc = "phase1"
    /\ Settled(Phase1)
    /\ errors' = NoteIfFailed(NoteIfFailed(errors, "zoning", "Zoning"), "permit", "Permit")
    /\ LET pd1 == IF task["zoning"] = "ok"
                  THEN [property_data EXCEPT
                          !.zoning_district = Some("RS-10"),
                          !.zoning_dims = Some([max_height_ft |-> 35])]
                  ELSE property_data
           pd2 == IF task["permit"] = "ok"
                  THEN [pd1 EXCEPT !.permit_history = <<>>, !.open_violations = <<>>]
                  ELSE pd1
       IN /\ property_data' = pd2
          /\ phase2_dims' = pd2.zoning_dims   \* the argument of both phase-2 tasks
    /\ task' = [t \in Stages |-> IF t \in Phase2 THEN "running" ELSE task[t]]
    /\ invoked' = [t \in Stages |-> IF t \in Phase2 THEN invoked[t] + 1 ELSE invoked[t]]
    /\ pc' = IF \E t \in Phase1 : task[t] = "exc" THEN "raised" ELSE "phase2"
    /\ UNCHANGED <<mode, next_agent, steps, parcel_id, completed_agents, messages,
                   final_report, timestamp, failed, synth_runs, first_run>>
    /\ CacheFrame

gather_phase1_needs_zoning ==
    /\ mode = "parallel"
    /\ pc = "phase1"
    /\ Settled(Phase1)
    /\ task["zoning"] = "ok"
    /\ errors' = NoteIfFailed(NoteIfFailed(errors, "zoning", "Zoning"), "permit", "Permit")
    /\ LET pd1 == IF task["zoning"] = "ok"
                  THEN [property_data EXCEPT
                          !.zoning_district = Some("RS-10"),
                          !.zoning_dims = Some([max_height_ft |-> 35])]
                  ELSE property_data
           pd2 == IF task["permit"] = "ok"
                  THEN [pd1 EXCEPT !.permit_history = <<>>, !.open_violations = <<>>]
                  ELSE pd1
       IN /\ property_data' = pd2
          /\ phase2_dims' = pd2.zoning_dims   \* the argument of both phase-2 tasks
    /\ task' = [t \in Stages |-> IF t \in Phase2 THEN "running" ELSE task[t]]
    /\ invoked' = [t \in Stages |-> IF t \in Phase2 THEN invoked[t] + 1 ELSE invoked[t]]
    /\ pc' = "phase2"
    /\ UNCHANGED <<mode, next_agent, steps, parcel_id, completed_agents, messages,
                   final_report, timestamp, failed, synth_runs, first_run>>
    /\ CacheFrame

\* the first gather returns: phase-1 results are merged and the phase-2 tasks created
gather_phase1 ==
    /\ mode = "parallel"
    /\ pc = "phase1"
    /\ Settled(Phase1)
    /\ errors' = NoteIfFailed(NoteIfFailed(errors, "zoning", "Zoning"), "permit", "Permit")
    /\ LET pd1 == IF task["zoning"] = "ok"
                  THEN [property_data EXCEPT
                          !.zoning_district = Some("RS-10"),
                          !.zoning_dims = Some([max_height_ft |-> 35])]
                  ELSE property_data
           pd2 == IF task["permit"] = "ok"
                  THEN [pd1 EXCEPT !.permit_history = <<>>, !.open_violations = <<>>]
                  ELSE pd1
       IN /\ property_data' = pd2
          /\ phase2_dims' = pd2.zoning_dims   \* the argument of both phase-2 tasks
    /\ task' = [t \in Stages |-> IF t \in Phase2 THEN "running" ELSE task[t]]
    /\ invoked' = [t \in Stages |-> IF t \in Phase2 THEN invoked[t] + 1 ELSE invoked[t]]
    /\ pc' = "phase2"
    /\ UNCHANGED <<mode, next_agent, steps, parcel_id, completed_agents, messages,
                   final_report, timestamp, failed, synth_runs, first_run>>
    /\ CacheFrame

\* completed_agents of the state run_parallel_analysis builds
parallel_completed == <<"zoning", "permit", "valuation", "envelope">>

gather_phase2_first_done ==
    /\ mode = "parallel"
    /\ pc = "phase2"
    /\ \E t \in Phase2 : task[t] \in {"ok", "exc"}
    /\ errors' = NoteIfFailed(NoteIfFailed(errors, "valuation", "Valuation"),
                              "envelope", "Envelope")
    /\ LET pd1 == IF task["valuation"] = "ok"
                  THEN [property_data EXCEPT !.arv = Some(325000),
                                             !.max_bid = Some(165000)]
                  ELSE property_data
           pd2 == IF task["envelope"] = "ok"
                  THEN [pd1 EXCEPT !.envelope_generated = TRUE,
                                   !.avg_sun_hours = Some(85)]
                  ELSE pd1
       IN property_data' = pd2
    /\ messages' = <<>>
    /\ completed_agents' = parallel_completed
    /\ final_report' = None
    /\ next_agent' = "synthesizer"
    /\ pc' = "node"
    /\ UNCHANGED <<mode, steps, parcel_id, timestamp, task, invoked, failed, synth_runs,
                   phase2_dims, first_run>>
    /\ CacheFrame

\* the second gather returns: phase-2 results are merged, the final state is built
\* and handed to synthesizer_node
gather_phase2 ==
    /\ mode = "parallel"
    /\ pc = "phase2"
    /\ Settled(Phase2)
    /\ errors' = NoteIfFailed(NoteIfFailed(errors, "valuation", "Valuation"),
                              "envelope", "Envelope")
    /\ LET pd1 == IF task["valuation"] = "ok"
                  THEN [property_data EXCEPT !.arv = Some(325000),
                                             !.max_bid = Some(165000)]
                  ELSE property_data
           pd2 == IF task["envelope"] = "ok"
                  THEN [pd1 EXCEPT !.envelope_generated = TRUE,
                                   !.avg_sun_hours = Some(85)]
                  ELSE pd1
       IN property_data' = pd2
    /\ messages' = <<>>
    /\ completed_agents' = parallel_completed
    /\ final_report' = None
    /\ next_agent' = "synthesizer"
    /\ pc' = "node"
    /\ UNCHANGED <<mode, steps, parcel_id, timestamp, task, invoked, failed, synth_runs,
                   phase2_dims, first_run>>
    /\ CacheFrame

-----------------------------------------------------------------------------
(* Specification of a run, in either mode *)

Init ==
    /\ mode \in {"sequential", "parallel"}
    /\ pc = "start"
    /\ next_agent = ""
    /\ steps = 0
    /\ parcel_id \in ParcelIds
    /\ property_data = NewPropertyData(parcel_id)
    /\ completed_agents = <<>>
    /\ errors = <<>>
    /\ messages = <<>>
    /\ final_report = None
    /\ timestamp = "2026-01-01T00:00:00"
    /\ task = NoTasks
    /\ invoked = ZeroCount
    /\ failed = ZeroCount
    /\ synth_runs = 0
    /\ deps = FreshDeps
    /\ store \in {DefaultStore, [DefaultStore EXCEPT !.manifest = "absent"]}
    /\ io = ZeroIO
    /\ tool_result = NoResult
    /\ phase2_dims = None
    /\ first_run = None

Next ==
    \/ run_property_analysis
    \/ conditional_edge
    \/ zoning_agent_node
    \/ valuation_agent_node
    \/ permit_agent_node
    \/ envelope_agent_node
    \/ synthesizer_node
    \/ run_parallel_analysis
    \/ run_zoning_analysis
    \/ run_permit_analysis
    \/ run_valuation_analysis
    \/ run_envelope_analysis
    \/ gather_phase1
    \/ gather_phase2

Spec == Init /\ [][Next]_vars

\* the event loop keeps running a run that can take a step
FairSpec == Spec /\ WF_vars(Next)

-----------------------------------------------------------------------------
(* Specification of paired runs: a caller analyses one parcel with              *)
(* run_property_analysis and then, the same parcel, with run_parallel_analysis  *)

\* the label of the recommendation line of a finished report
LabelsOf(rep) ==
    LET i == CHOOSE k \in DOMAIN rep : rep[k] = "## Recommendation"
    IN {l \in {"BID", "REVIEW", "SKIP", "INCOMPLETE"} : recommendation_line(l) = rep[i + 1]}

\* the sequential run has returned its final state; the caller keeps the record the
\* synthesizer was handed and the report's label, and calls run_parallel_analysis
\* with the same parcel_id
second_run ==
    /\ mode = "sequential"
    /\ pc = "END"
    /\ first_run = None
    /\ first_run' = Some([record |-> property_data,
                          labels |-> LabelsOf(final_report[1]),
                          clean  |-> failed = ZeroCount])
    /\ mode' = "parallel"
    /\ pc' = "start"
    /\ next_agent' = ""
    /\ steps' = 0
    /\ completed_agents' = <<>>
    /\ errors' = <<>>
    /\ messages' = <<>>
    /\ final_report' = None
    /\ task' = NoTasks
    /\ invoked' = ZeroCount
    /\ failed' = ZeroCount
    /\ synth_runs' = 0
    /\ UNCHANGED <<parcel_id, property_data, timestamp, phase2_dims>>
    /\ CacheFrame

InitPair == Init /\ mode = "sequential"

NextPair == Next \/ second_run

SpecPair == InitPair /\ [][NextPair]_vars

-----------------------------------------------------------------------------
(* Specification of a run whose caller hands the returned state to the router *)

\* route_to_next_agent(final_state), called on the state a finished run returned
route_after_run ==
    /\ mode \in {"sequential", "parallel"}
    /\ pc = "END"
    /\ next_agent' = route_to_next_agent(completed_agents)
    /\ pc' = "routed"
    /\ UNCHANGED <<mode, steps, parcel_id, property_data, completed_agents, errors,
                   messages, final_report, timestamp, task, invoked, failed, synth_runs,
                   phase2_dims, first_run>>
    /\ CacheFrame

NextRouted == Next \/ route_after_run

SpecRouted == Init /\ [][NextRouted]_vars

-----------------------------------------------------------------------------
(* Skill cache: the tools of zonewise_agent.py on one AgentDependencies *)

\* what a call leaves alone besides deps, io and tool_result
ToolFrame == UNCHANGED <<mode, pc, next_agent, steps, parcel_id, property_data,
                         completed_agents, errors, messages, final_report, timestamp,
                         task, invoked, failed, synth_runs, store, phase2_dims,
                         first_run>>

ToolReturn(tool, name, outcome, content) ==
    [tool |-> tool, name |-> name, outcome |-> outcome, content |-> content]

\* str(e) of the ValueError and FileNotFoundError the two loaders raise; a skill
\* named n has its SKILL.md at n/SKILL.md
SkillNotFoundAsMissingFile(skill_name) ==
    "Skill file not found: " \o skill_name \o "/SKILL.md"
SkillNotFound(skill_name) == "Skill not found: " \o skill_name
SkillFileNotFound(skill_name) == "Skill file not found: " \o skill_name \o "/SKILL.md"
ReferenceNotFound(skill_name, reference_name) ==
    "Reference not found: " \o skill_name \o "/references/" \o reference_name

\* what a read_reference call was asked for and what it returned
RefReturn(skill_name, reference_name, outcome, content) ==
    [tool |-> "read_reference", name |-> skill_name, reference |-> reference_name,
     outcome |-> outcome, content |-> content]

load_skill_tool_without_cache_check(skill_name) ==
    /\ mode = "cache"
    /\ io.calls < MaxToolCalls
    /\ ToolFrame
    /\ IF deps.manifest = None /\ store.manifest = "absent"
       THEN /\ tool_result' = ToolReturn("load_skill", skill_name, "raised", "")
            /\ io' = [io EXCEPT !.calls = @ + 1]
            /\ UNCHANGED deps
       ELSE IF skill_name \notin WithManifest(deps).manifest[1]
       THEN /\ tool_result' = ToolReturn("load_skill", skill_name, "error",
                                         SkillNotFound(skill_name))
            /\ io' = [io EXCEPT !.calls = @ + 1,
                                !.manifest_reads = @ + ManifestReads(deps)]
            /\ deps' = WithManifest(deps)
       ELSE IF store.skills[skill_name] = None
       THEN /\ tool_result' = ToolReturn("load_skill", skill_name, "error",
                                         SkillFileNotFound(skill_name))
            /\ io' = [io EXCEPT !.calls = @ + 1,
                                !.manifest_reads = @ + ManifestReads(deps)]
            /\ deps' = WithManifest(deps)
       ELSE IF ~LoadedSkillValid(store.skills[skill_name][1])
       THEN /\ tool_result' = ToolReturn("load_skill", skill_name, "error",
                                         LoadedSkillInvalid)
            /\ io' = [io EXCEPT !.calls = @ + 1,
                                !.manifest_reads = @ + ManifestReads(deps),
                                !.skill_reads[skill_name] = @ + 1]
            /\ deps' = WithManifest(deps)
       ELSE LET skill == load_skill_content(skill_name, store.skills[skill_name][1])
            IN /\ tool_result' = ToolReturn("load_skill", skill_name, "loaded",
                                            skill.content)
               /\ io' = [io EXCEPT !.calls = @ + 1,
                                   !.manifest_reads = @ + ManifestReads(deps),
                                   !.skill_reads[skill_name] = @ + 1]
               /\ deps' = [WithManifest(deps) EXCEPT
                             !.loaded_skills = DictSet(@, skill_name, skill)]

\* Both tools are coroutines whose bodies contain no await: the manifest and the
\* files are read with blocking calls. The event loop therefore runs a call from
\* its cache test to its return before any other caller's call starts, and callers
\* that share one deps interleave only as whole calls, in any order.

\* load_skill_tool(ctx, skill_name): a cached skill is returned as it is; else the
\* manifest is loaded if deps holds none (a missing manifest file raises out of the
\* tool), then the skill is looked up, read, parsed and cached (an unknown name, a
\* missing file or a front matter that is no mapping returns an error text)
load_skill_tool(skill_name) ==
    /\ mode = "cache"
    /\ io.calls < MaxToolCalls
    /\ ToolFrame
    /\ IF skill_name \in DOMAIN deps.loaded_skills
       THEN /\ tool_result' = ToolReturn("load_skill", skill_name, "cached",
                                         deps.loaded_skills[skill_name].content)
            /\ io' = [io EXCEPT !.calls = @ + 1]
            /\ UNCHANGED deps
       ELSE IF deps.manifest = None /\ store.manifest = "absent"
       THEN /\ tool_result' = ToolReturn("load_skill", skill_name, "raised", "")
            /\ io' = [io EXCEPT !.calls = @ + 1]
            /\ UNCHANGED deps
       ELSE IF skill_name \notin WithManifest(deps).manifest[1]
       THEN /\ tool_result' = ToolReturn("load_skill", skill_name, "error",
                                         SkillNotFound(skill_name))
            /\ io' = [io EXCEPT !.calls = @ + 1,
                                !.manifest_reads = @ + ManifestReads(deps)]
            /\ deps' = WithManifest(deps)
       ELSE IF store.skills[skill_name] = None
       THEN /\ tool_result' = ToolReturn("load_skill", skill_name, "error",
                                         SkillFileNotFound(skill_name))
            /\ io' = [io EXCEPT !.calls = @ + 1,
                                !.manifest_reads = @ + ManifestReads(deps)]
            /\ deps' = WithManifest(deps)
       ELSE IF ~LoadedSkillValid(store.skills[skill_name][1])
       THEN /\ tool_result' = ToolReturn("load_skill", skill_name, "error",
                                         LoadedSkillInvalid)
            /\ io' = [io EXCEPT !.calls = @ + 1,
                                !.manifest_reads = @ + ManifestReads(deps),
                                !.skill_reads[skill_name] = @ + 1]
            /\ deps' = WithManifest(deps)
       ELSE LET skill == load_skill_content(skill_name, store.skills[skill_name][1])
            IN /\ tool_result' = ToolReturn("load_skill", skill_name, "loaded",
                                            skill.content)
               /\ io' = [io EXCEPT !.calls = @ + 1,
                                   !.manifest_reads = @ + ManifestReads(deps),
                                   !.skill_reads[skill_name] = @ + 1]
               /\ deps' = [WithManifest(deps) EXCEPT
                             !.loaded_skills = DictSet(@, skill_name, skill)]

\* cache_key = f"{skill_name}:{reference_name}"
cache_key(skill_name, reference_name) == skill_name \o ":" \o reference_name

read_reference_tool_not_stored(skill_name, reference_name) ==
    /\ mode = "cache"
    /\ io.calls < MaxToolCalls
    /\ ToolFrame
    /\ LET key == cache_key(skill_name, reference_name)
       IN IF key \in DOMAIN deps.loaded_references
          THEN /\ tool_result' = RefReturn(skill_name, reference_name, "cached",
                                            deps.loaded_references[key].content)
               /\ io' = [io EXCEPT !.calls = @ + 1]
               /\ UNCHANGED deps
          ELSE IF deps.manifest = None /\ store.manifest = "absent"
          THEN /\ tool_result' = RefReturn(skill_name, reference_name, "raised", "")
               /\ io' = [io EXCEPT !.calls = @ + 1]
               /\ UNCHANGED deps
          ELSE IF skill_name \notin WithManifest(deps).manifest[1]
          THEN /\ tool_result' = RefReturn(skill_name, reference_name, "error",
                                           SkillNotFound(skill_name))
               /\ io' = [io EXCEPT !.calls = @ + 1,
                                   !.manifest_reads = @ + ManifestReads(deps)]
               /\ deps' = WithManifest(deps)
          ELSE IF store.refs[skill_name][reference_name] = None
          THEN /\ tool_result' = RefReturn(skill_name, reference_name, "error",
                                           ReferenceNotFound(skill_name, reference_name))
               /\ io' = [io EXCEPT !.calls = @ + 1,
                                   !.manifest_reads = @ + ManifestReads(deps)]
               /\ deps' = WithManifest(deps)
          ELSE LET ref == [name |-> reference_name, skill_name |-> skill_name,
                           content |-> store.refs[skill_name][reference_name][1]]
               IN /\ tool_result' = RefReturn(skill_name, reference_name, "loaded",
                                               ref.content)
                  /\ io' = [io EXCEPT !.calls = @ + 1,
                                      !.manifest_reads = @ + ManifestReads(deps),
                                      !.reference_reads[<<skill_name, reference_name>>] = @ + 1]
                  /\ deps' = WithManifest(deps)

read_reference_tool_declared_only(skill_name, reference_name) ==
    /\ mode = "cache"
    /\ io.calls < MaxToolCalls
    /\ ToolFrame
    /\ LET key == cache_key(skill_name, reference_name)
       IN IF key \in DOMAIN deps.loaded_references
          THEN /\ tool_result' = RefReturn(skill_name, reference_name, "cached",
                                            deps.loaded_references[key].content)
               /\ io' = [io EXCEPT !.calls = @ + 1]
               /\ UNCHANGED deps
          ELSE IF deps.manifest = None /\ store.manifest = "absent"
          THEN /\ tool_result' = RefReturn(skill_name, reference_name, "raised", "")
               /\ io' = [io EXCEPT !.calls = @ + 1]
               /\ UNCHANGED deps
          ELSE IF skill_name \notin WithManifest(deps).manifest[1]
          THEN /\ tool_result' = RefReturn(skill_name, reference_name, "error",
                                           SkillNotFound(skill_name))
               /\ io' = [io EXCEPT !.calls = @ + 1,
                                   !.manifest_reads = @ + ManifestReads(deps)]
               /\ deps' = WithManifest(deps)
          ELSE IF reference_name \notin DeclaredReferences[skill_name]
                     \/ store.refs[skill_name][reference_name] = None
          THEN /\ tool_result' = RefReturn(skill_name, reference_name, "error",
                                           ReferenceNotFound(skill_name, reference_name))
               /\ io' = [io EXCEPT !.calls = @ + 1,
                                   !.manifest_reads = @ + ManifestReads(deps)]
               /\ deps' = WithManifest(deps)
          ELSE LET ref == [name |-> reference_name, skill_name |-> skill_name,
                           content |-> store.refs[skill_name][reference_name][1]]
               IN /\ tool_result' = RefReturn(skill_name, reference_name, "loaded",
                                               ref.content)
                  /\ io' = [io EXCEPT !.calls = @ + 1,
                                      !.manifest_reads = @ + ManifestReads(deps),
                                      !.reference_reads[<<skill_name, reference_name>>] = @ + 1]
                  /\ deps' = [WithManifest(deps) EXCEPT
                                !.loaded_references = DictSet(@, key, ref)]

\* read_reference_tool(ctx, skill_name, reference_name): the same discipline as
\* load_skill_tool, on deps.loaded_references under cache_key
read_reference_tool(skill_name, reference_name) ==
    /\ mode = "cache"
    /\ io.calls < MaxToolCalls
    /\ ToolFrame
    /\ LET key == cache_key(skill_name, reference_name)
       IN IF key \in DOMAIN deps.loaded_references
          THEN /\ tool_result' = RefReturn(skill_name, reference_name, "cached",
                                            deps.loaded_references[key].content)
               /\ io' = [io EXCEPT !.calls = @ + 1]
               /\ UNCHANGED deps
          ELSE IF deps.manifest = None /\ store.manifest = "absent"
          THEN /\ tool_result' = RefReturn(skill_name, reference_name, "raised", "")
               /\ io' = [io EXCEPT !.calls = @ + 1]
               /\ UNCHANGED deps
          ELSE IF skill_name \notin WithManifest(deps).manifest[1]
          THEN /\ tool_result' = RefReturn(skill_name, reference_name, "error",
                                           SkillNotFound(skill_name))
               /\ io' = [io EXCEPT !.calls = @ + 1,
                                   !.manifest_reads = @ + ManifestReads(deps)]
               /\ deps' = WithManifest(deps)
          ELSE IF store.refs[skill_name][reference_name] = None
          THEN /\ tool_result' = RefReturn(skill_name, reference_name, "error",
                                           ReferenceNotFound(skill_name, reference_name))
               /\ io' = [io EXCEPT !.calls = @ + 1,
                                   !.manifest_reads = @ + ManifestReads(deps)]
               /\ deps' = WithManifest(deps)
          ELSE LET ref == [name |-> reference_name, skill_name |-> skill_name,
                           content |-> store.refs[skill_name][reference_name][1]]
               IN /\ tool_result' = RefReturn(skill_name, reference_name, "loaded",
                                               ref.content)
                  /\ io' = [io EXCEPT !.calls = @ + 1,
                                      !.manifest_reads = @ + ManifestReads(deps),
                                      !.reference_reads[<<skill_name, reference_name>>] = @ + 1]
                  /\ deps' = [WithManifest(deps) EXCEPT
                                !.loaded_references = DictSet(@, key, ref)]

\* the files a skills directory may hold
Documents == {Document("none", "v1"), Document("valid", "v1"), Document("valid", "v2"),
              Document("scalar", "v1")}
\* the manifest comes and goes, and so does the SKILL.md of one skill, whose text
\* also changes
Stores == [manifest : {"ok", "absent"},
           skills : {[DefaultStore.skills EXCEPT !["zoning-analysis"] = d] :
                        d \in {None} \cup {Some(doc) : doc \in Documents}},
           refs : {DefaultRefs}]

\* between two calls someone edits, adds or removes a file of the skills directory
store_changes ==
    /\ mode = "cache"
    /\ \E st \in Stores :
          /\ st # store
          /\ \/ /\ st.manifest # store.manifest
                /\ st.skills = store.skills
             \/ /\ st.manifest = store.manifest
                /\ \E n \in CatalogSkills :
                      \A k \in CatalogSkills : k # n => st.skills[k] = store.skills[k]
          /\ store' = st
    /\ UNCHANGED <<mode, pc, next_agent, steps, parcel_id, property_data,
                   completed_agents, errors, messages, final_report, timestamp,
                   task, invoked, failed, synth_runs, deps, io, tool_result,
                   phase2_dims, first_run>>

InitCache ==
    /\ mode = "cache"
    /\ pc = "idle"
    /\ next_agent = ""
    /\ steps = 0
    /\ parcel_id = "2512345"
    /\ property_data = NewPropertyData(parcel_id)
    /\ completed_agents = <<>>
    /\ errors = <<>>
    /\ messages = <<>>
    /\ final_report = None
    /\ timestamp = "2026-01-01T00:00:00"
    /\ task = NoTasks
    /\ invoked = ZeroCount
    /\ failed = ZeroCount
    /\ synth_runs = 0
    /\ deps = FreshDeps
    /\ store = DefaultStore
    /\ io = ZeroIO
    /\ tool_result = NoResult
    /\ phase2_dims = None
    /\ first_run = None

NextCache ==
    \/ \E n \in SkillNames : load_skill_tool(n)
    \/ \E n \in SkillNames, r \in RefNames : read_reference_tool(n, r)
    \/ store_changes

SpecCache == InitCache /\ [][NextCache]_vars

-----------------------------------------------------------------------------
(* Specification of parse_front_matter alone: one call on any text *)

Pieces == {Marker, MapLine, BrokenLine, "", "v1"}

Texts == UNION {[1..n -> Pieces] : n \in 0..MaxDocLines}

InitParse ==
    /\ mode = "parse"
    /\ pc = "call"
    /\ next_agent = ""
    /\ steps = 0
    /\ parcel_id = "2512345"
    /\ property_data = NewPropertyData(parcel_id)
    /\ completed_agents = <<>>
    /\ errors = <<>>
    /\ messages = <<>>
    /\ final_report = None
    /\ timestamp = "2026-01-01T00:00:00"
    /\ task = NoTasks
    /\ invoked = ZeroCount
    /\ failed = ZeroCount
    /\ synth_runs = 0
    /\ deps = FreshDeps
    /\ \E text \in Texts :
          store = [DefaultStore EXCEPT !.skills["zoning-analysis"] = Some(text)]
    /\ io = ZeroIO
    /\ tool_result = NoResult
    /\ phase2_dims = None
    /\ first_run = None

\* content = skill_path.read_text(); front_matter, body = parse_front_matter(content)
parse_call ==
    /\ mode = "parse"
    /\ pc = "call"
    /\ LET parsed == parse_front_matter(store.skills["zoning-analysis"][1])
       IN tool_result' = [tool |-> "parse_front_matter",
                          front_matter |-> parsed.front_matter,
                          body |-> parsed.body]
    /\ pc' = "returned"
    /\ UNCHANGED <<mode, next_agent, steps, parcel_id, property_data, completed_agents,
                   errors, messages, final_report, timestamp, task, invoked, failed,
                   synth_runs, deps, store, io, phase2_dims, first_run>>

SpecParse == InitParse /\ [][parse_call]_vars

-----------------------------------------------------------------------------
(* Specification of the router alone: one call on any completed_agents list *)

RouterIds == Stages \cup {"synthesizer"}

CompletedLists == UNION {[1..n -> RouterIds] : n \in 0..MaxCompletedLen}

InitRouter ==
    /\ mode = "router"
    /\ pc = "call"
    /\ next_agent = ""
    /\ steps = 0
    /\ parcel_id = "2512345"
    /\ property_data = NewPropertyData(parcel_id)
    /\ completed_agents \in CompletedLists
    /\ errors = <<>>
    /\ messages = <<>>
    /\ final_report = None
    /\ timestamp = "2026-01-01T00:00:00"
    /\ task = NoTasks
    /\ invoked = ZeroCount
    /\ failed = ZeroCount
    /\ synth_runs = 0
    /\ deps = FreshDeps
    /\ store = DefaultStore
    /\ io = ZeroIO
    /\ tool_result = NoResult
    /\ phase2_dims = None
    /\ first_run = None

router_call_records_decision ==
    /\ mode = "router"
    /\ pc = "call"
    /\ next_agent' = route_to_next_agent(completed_agents)
    /\ completed_agents' = Append(completed_agents, next_agent')
    /\ pc' = "returned"
    /\ UNCHANGED <<mode, steps, parcel_id, property_data, errors,
                   messages, final_report, timestamp, task, invoked, failed, synth_runs,
                   phase2_dims, first_run>>
    /\ CacheFrame

\* a direct call of route_to_next_agent(state)
router_call ==
    /\ mode = "router"
    /\ pc = "call"
    /\ next_agent' = route_to_next_agent(completed_agents)
    /\ pc' = "returned"
    /\ UNCHANGED <<mode, steps, parcel_id, property_data, completed_agents, errors,
                   messages, final_report, timestamp, task, invoked, failed, synth_runs,
                   phase2_dims, first_run>>
    /\ CacheFrame

SpecRouter == InitRouter /\ [][router_call]_vars

-----------------------------------------------------------------------------
(* Specification of the synthesizer alone: one call on any record *)

RiskScores == 0..MaxRiskScore

SynthRecords ==
    { [NewPropertyData("2512345") EXCEPT
          !.arv = a, !.max_bid = b, !.permit_risk_score = r, !.open_violations = v,
          !.envelope_generated = e, !.zoning_district = z,
          !.max_buildable_sqft = m, !.max_height = m, !.avg_sun_hours = m] :
      m \in {None, Some(0), Some(2500)},
      a \in {None, Some(0), Some(325000)},
      b \in {None, Some(0), Some(165000)},
      r \in RiskScores,
      v \in {<<>>, <<"Unpermitted addition">>},
      e \in BOOLEAN,
      z \in {None, Some("RS-10")} }

SynthErrors == {<<>>, <<"Zoning agent error: CapabilityError">>,
                <<"Zoning error: CapabilityError", "Permit error: CapabilityError">>}

InitSynth ==
    /\ mode = "synth"
    /\ pc = "node"
    /\ next_agent = "synthesizer"
    /\ steps = 0
    /\ parcel_id = "2512345"
    /\ property_data \in SynthRecords
    /\ completed_agents = <<>>
    /\ errors \in SynthErrors
    /\ messages = <<>>
    /\ final_report = None
    /\ timestamp = "2026-01-01T00:00:00"
    /\ task = NoTasks
    /\ invoked = ZeroCount
    /\ failed = ZeroCount
    /\ synth_runs = 0
    /\ deps = FreshDeps
    /\ store = DefaultStore
    /\ io = ZeroIO
    /\ tool_result = NoResult
    /\ phase2_dims = None
    /\ first_run = None

SpecSynth == InitSynth /\ [][synthesizer_node]_vars

-----------------------------------------------------------------------------
(* Claims *)

Labels == {"BID", "REVIEW", "SKIP", "INCOMPLETE"}

\* the line of the report that follows the "## Recommendation" heading
ReportedLine ==
    LET rep == final_report[1]
        i == CHOOSE k \in DOMAIN rep : rep[k] = "## Recommendation"
    IN rep[i + 1]

\* the labels whose recommendation text is the reported line
ReportedLabels == {l \in Labels : recommendation_line(l) = ReportedLine}

\* the error note a stage node writes, as the source spells it
StageNote(s) ==
    CASE s = "zoning"    -> "Zoning agent error: CapabilityError"
      [] s = "valuation" -> "Valuation agent error: CapabilityError"
      [] s = "permit"    -> "Permit agent error: CapabilityError"
      [] s = "envelope"  -> "Envelope agent error: CapabilityError"

RunEnded == pc \in {"END", "raised"}

\* C1: for every completed_agents list that does not hold all four stage
\* identifiers, route_to_next_agent returns the first identifier of
\* [zoning, valuation, permit, envelope] that is not in the list.
C1_RouterFirstMissing ==
    LET order == <<"zoning", "valuation", "permit", "envelope">>
        done == Range(completed_agents)
    IN (pc = "returned" /\ ~(Stages \subseteq done)) =>
          \E i \in 1..4 : /\ next_agent = order[i]
                          /\ order[i] \notin done
                          /\ \A j \in 1..(i - 1) : order[j] \in done

C1_Witness ==
    /\ pc = "returned"
    /\ completed_agents = <<"permit", "zoning">>
    /\ next_agent = "valuation"

\* C2: every sequential run eventually reaches the terminal state with
\* final_report set, whichever stage invocations succeed or fail.
C2_SequentialRunCompletes ==
    (mode = "sequential") ~> (pc = "END" /\ final_report # None)

\* C3: in a sequential run each stage is invoked at most once; a stage whose
\* invocation failed is never invoked again.
C3_StageInvokedAtMostOnce ==
    mode = "sequential" => \A s \in Stages : invoked[s] <= 1

\* C4: in a sequential run where the zoning stage fails, the valuation and
\* permit stages are still invoked before the run ends.
C4_ZoningFailureDoesNotBlock ==
    (mode = "sequential" /\ RunEnded /\ failed["zoning"] > 0) =>
        (invoked["valuation"] > 0 /\ invoked["permit"] > 0)

\* C5: a sequential run in which the zoning invocation failed ends with exactly
\* one zoning-prefixed entry in errors and without zoning in completed_agents.
C5_ZoningFailureFinalState ==
    (mode = "sequential" /\ pc = "END" /\ failed["zoning"] > 0) =>
        /\ Cardinality({i \in DOMAIN errors : errors[i] = StageNote("zoning")}) = 1
        /\ "zoning" \notin Range(completed_agents)

\* C6: an invocation of a stage node that fails appends exactly one note (the
\* stage's) to errors, leaves completed_agents as it was and returns to the graph.
C6_FailedStageNode ==
    [][\A s \in Stages :
          (mode = "sequential" /\ failed'[s] = failed[s] + 1) =>
              /\ errors' = Append(errors, StageNote(s))
              /\ completed_agents' = completed_agents
              /\ pc' = "route"]_vars

C6_Witness ==
    /\ mode = "sequential"
    /\ pc = "route"
    /\ \A s \in Stages : failed[s] > 0
    /\ Len(errors) = 4
    /\ "envelope" \notin Range(completed_agents)

\* C7: in both modes final_report is set if and only if the synthesizer has run,
\* and the synthesizer has run only with all four stage identifiers in
\* completed_agents, each there because that stage succeeded.
C7_ReportIffAllStagesSucceeded ==
    /\ (final_report # None) <=> (synth_runs > 0)
    /\ synth_runs > 0 =>
          \A s \in Stages : s \in Range(completed_agents) /\ invoked[s] > failed[s]

\* C8: when arv and max_bid are both present, the recommendation is BID for a
\* risk score below 30 with no open violation, else REVIEW for a risk score
\* below 50, else SKIP.
C8_RecommendationRule ==
    LET pd == property_data
    IN (pc = "END" /\ pd.arv # None /\ pd.max_bid # None) =>
          ReportedLabels =
             {IF pd.permit_risk_score < 30 /\ pd.open_violations = <<>> THEN "BID"
              ELSE IF pd.permit_risk_score < 50 THEN "REVIEW"
              ELSE "SKIP"}

\* C9: the recommendation is INCOMPLETE whenever arv or max_bid is unset, and is
\* one of BID, REVIEW, SKIP whenever both hold a value, the value 0 included.
C9_IncompleteIffAbsent ==
    LET pd == property_data
    IN pc = "END" =>
          /\ (pd.arv = None \/ pd.max_bid = None) => ReportedLabels = {"INCOMPLETE"}
          /\ (pd.arv # None /\ pd.max_bid # None) =>
                 ReportedLabels \subseteq {"BID", "REVIEW", "SKIP"}

\* C10: the recommendation rule is total and deterministic: every record gets
\* exactly one of the four labels, and a record that agrees with it on arv,
\* max_bid, permit_risk_score and open_violations gets the same label, whatever
\* its other fields and the errors list are.
C10_RecommendationTotalDeterministic ==
    pc = "END" =>
        /\ Cardinality(ReportedLabels) = 1
        /\ \A e \in BOOLEAN, z \in {None, Some("RS-10")}, errs \in SynthErrors :
              LET other == [property_data EXCEPT !.envelope_generated = e,
                                                 !.zoning_district = z]
                  rep == report_lines(other, timestamp, errs)
                  i == CHOOSE k \in DOMAIN rep : rep[k] = "## Recommendation"
              IN rep[i + 1] = ReportedLine

C10_Witness ==
    /\ pc = "END"
    /\ mode = "synth"
    /\ errors # <<>>
    /\ property_data.envelope_generated
    /\ property_data.arv = Some(325000)
    /\ property_data.max_bid = Some(165000)
    /\ property_data.permit_risk_score = 35
    /\ ReportedLabels = {"REVIEW"}

\* C11: synthesizer_node never fails: on every record, whichever optional fields
\* are unset (or hold 0) and whatever the errors list, it returns normally and
\* final_report is a non-empty text.
C11_SynthesizerNeverFails ==
    (mode = "synth" /\ pc # "node") =>
        /\ pc = "END"
        /\ final_report # None
        /\ Len(final_report[1]) > 0
        /\ synth_runs = 1

C11_Witness ==
    /\ mode = "synth"
    /\ pc = "END"
    /\ property_data.arv = None
    /\ property_data.max_bid = Some(0)
    /\ property_data.max_buildable_sqft = None
    /\ property_data.zoning_district = None
    /\ Len(errors) = 2
    /\ final_report # None

Done(t) == task[t] \in {"ok", "exc"}
Phase2Started == task["valuation"] # "none" \/ task["envelope"] # "none"

\* C12: in parallel mode no phase-2 task starts before both phase-1 tasks have
\* settled, the dims handed to the phase-2 tasks are the record's zoning dims as
\* they are after phase 1, and nothing writes the zoning dims once phase 2 started.
C12_PhaseBarrier ==
    /\ []((mode = "parallel" /\ Phase2Started) =>
             /\ Done("zoning") /\ Done("permit")
             /\ phase2_dims = property_data.zoning_dims
             /\ (phase2_dims # None <=> task["zoning"] = "ok"))
    /\ [][(mode = "parallel" /\ Phase2Started) =>
             /\ property_data'.zoning_dims = property_data.zoning_dims
             /\ phase2_dims' = phase2_dims]_vars

C12_Witness ==
    /\ mode = "parallel"
    /\ pc = "phase2"
    /\ task = [zoning |-> "ok", permit |-> "exc", valuation |-> "running",
               envelope |-> "ok"]
    /\ phase2_dims = Some([max_height_ft |-> 35])

\* C13: in parallel mode the failure of one task of a phase neither ends the run
\* nor keeps the other task of the phase from settling: all four tasks settle,
\* and what a succeeded task returned is in the record after its phase's gather.
C13_IndependentFailures ==
    /\ [](mode = "parallel" => pc # "raised")
    /\ []((mode = "parallel" /\ pc \in {"phase2", "node", "END"}) =>
             /\ Done("zoning") /\ Done("permit")
             /\ task["zoning"] = "ok" =>
                   /\ property_data.zoning_district = Some("RS-10")
                   /\ property_data.zoning_dims = Some([max_height_ft |-> 35])
             /\ task["permit"] = "ok" =>
                   /\ property_data.permit_history = <<>>
                   /\ property_data.open_violations = <<>>)
    /\ []((mode = "parallel" /\ pc \in {"node", "END"}) =>
             /\ Done("valuation") /\ Done("envelope")
             /\ task["valuation"] = "ok" =>
                   /\ property_data.arv = Some(325000)
                   /\ property_data.max_bid = Some(165000)
             /\ task["envelope"] = "ok" =>
                   /\ property_data.envelope_generated
                   /\ property_data.avg_sun_hours = Some(85))
    /\ (mode = "parallel") ~> (\A t \in Stages : Done(t))

C13_Witness ==
    /\ mode = "parallel"
    /\ pc = "END"
    /\ task = [zoning |-> "ok", permit |-> "exc", valuation |-> "exc",
               envelope |-> "ok"]
    /\ property_data.zoning_district = Some("RS-10")
    /\ property_data.envelope_generated
    /\ Len(errors) = 2

\* C14: after a parallel run completed_agents holds a stage identifier if and
\* only if that stage's task succeeded.
C14_ParallelCompletedIffSucceeded ==
    (mode = "parallel" /\ pc = "END") =>
        \A s \in Stages : s \in Range(completed_agents) <=> task[s] = "ok"

\* C16: in parallel mode the synthesizer runs exactly once per run, and only
\* after both phase-2 tasks have settled.
C16_ParallelSynthesizerOnce ==
    mode = "parallel" =>
        /\ synth_runs <= 1
        /\ synth_runs = 1 => (Done("valuation") /\ Done("envelope"))
        /\ pc = "END" <=> synth_runs = 1
        /\ (pc = "node" /\ next_agent = "synthesizer") =>
               (Done("valuation") /\ Done("envelope"))

C16_Witness ==
    /\ mode = "parallel"
    /\ pc = "END"
    /\ synth_runs = 1
    /\ task["valuation"] = "exc"
    /\ task["envelope"] = "ok"

\* C17: a parallel run always terminates with final_report set, whichever tasks
\* fail; a failed zoning task does not block phase 2, which then starts with no
\* dims (None, which the tasks take as the empty default).
C17_ParallelRunTerminates ==
    /\ (mode = "parallel") ~> (pc = "END" /\ final_report # None)
    /\ (mode = "parallel" /\ task["zoning"] = "exc") ~> Phase2Started
    /\ []((mode = "parallel" /\ Phase2Started /\ task["zoning"] = "exc") =>
             phase2_dims = None)

C17_Witness ==
    /\ mode = "parallel"
    /\ pc = "END"
    /\ final_report # None
    /\ task["zoning"] = "exc"
    /\ phase2_dims = None
    /\ task["valuation"] = "ok"

\* C18: a run, in either mode, in which the valuation stage failed and set no arv
\* ends with a report whose recommendation is INCOMPLETE.
C18_ValuationFailureIncomplete ==
    (RunEnded /\ failed["valuation"] > 0 /\ property_data.arv = None) =>
        /\ pc = "END"
        /\ final_report # None
        /\ ReportedLabels = {"INCOMPLETE"}

\* C15: for the same parcel and the same per-stage outcomes (here: every stage
\* succeeds at its first invocation), the sequential and the parallel run hand the
\* synthesizer records with equal field values and end with the same label.
C15_ModesAgree ==
    (mode = "parallel" /\ pc = "END" /\ first_run # None /\ first_run[1].clean
        /\ \A t \in Stages : task[t] = "ok") =>
        /\ property_data = first_run[1].record
        /\ ReportedLabels = first_run[1].labels

\* C19: on one AgentDependencies, once load_skill_tool has cached a skill, every
\* later load_skill_tool call for that name returns the content the first call
\* stored (whatever the file holds by then) and retrieves nothing: no manifest read,
\* no file read, no change of the cache; the stored entry itself never changes.
C19_CachedSkillNotReloaded ==
    [][\A n \in DOMAIN deps.loaded_skills :
          /\ n \in DOMAIN deps'.loaded_skills
          /\ deps'.loaded_skills[n] = deps.loaded_skills[n]
          /\ (io'.calls = io.calls + 1 /\ tool_result'.tool = "load_skill"
                 /\ tool_result'.name = n) =>
                /\ tool_result'.outcome = "cached"
                /\ tool_result'.content = deps.loaded_skills[n].content
                /\ io'.manifest_reads = io.manifest_reads
                /\ io'.skill_reads = io.skill_reads
                /\ io'.reference_reads = io.reference_reads
                /\ deps' = deps]_vars

\* a second call for a cached skill whose file was removed in between, with a
\* reference loaded in between
C19_Witness ==
    /\ mode = "cache"
    /\ tool_result = ToolReturn("load_skill", "zoning-analysis", "cached", "v1")
    /\ store.skills["zoning-analysis"] = None
    /\ io.skill_reads["zoning-analysis"] = 1
    /\ io.reference_reads[<<"zoning-analysis", "dims.md">>] = 1
    /\ io.manifest_reads = 1
    /\ io.calls = 3

\* C20: within one run of the workflow the manifest (catalog) is read and parsed
\* at most once, however many stages run and however many capabilities or
\* references they load.
C20_ManifestReadOnce ==
    mode \in {"sequential", "parallel"} => io.manifest_reads <= 1

\* C21: within one run the capability cache is shared by all stages: a skill
\* loaded by one stage is a cache hit when a later stage of the same run asks for
\* it, so the file of each skill is read at most once per run.
C21_CacheSharedAcrossStages ==
    mode = "sequential" => \A n \in SkillNames : io.skill_reads[n] <= 1

\* C22: when several callers sharing one AgentDependencies ask for the same skill
\* or reference, in any order of their calls, at most one call loads the key (a
\* call loads only a key that is not cached, and nothing is read for a key that is
\* cached), every caller that gets content gets the content held in the cache, and
\* a cached entry never changes.
C22_SingleLoadPerKey ==
    /\ [][/\ \A n \in DOMAIN deps.loaded_skills :
                  /\ io'.skill_reads[n] = io.skill_reads[n]
                  /\ n \in DOMAIN deps'.loaded_skills
           /\ \A k \in SkillNames \X RefNames :
                  /\ io'.reference_reads[k] <= 1
                  /\ cache_key(k[1], k[2]) \in DOMAIN deps.loaded_references =>
                        io'.reference_reads[k] = io.reference_reads[k]
           /\ (io'.calls = io.calls + 1 /\ tool_result'.outcome = "loaded") =>
                  IF tool_result'.tool = "load_skill"
                  THEN tool_result'.name \notin DOMAIN deps.loaded_skills
                  ELSE cache_key(tool_result'.name, tool_result'.reference)
                          \notin DOMAIN deps.loaded_references]_vars
    /\ [][(io'.calls = io.calls + 1 /\ tool_result'.outcome \in {"loaded", "cached"}) =>
             IF tool_result'.tool = "load_skill"
             THEN /\ tool_result'.name \in DOMAIN deps'.loaded_skills
                  /\ tool_result'.content = deps'.loaded_skills[tool_result'.name].content
             ELSE LET key == cache_key(tool_result'.name, tool_result'.reference)
                  IN /\ key \in DOMAIN deps'.loaded_references
                     /\ tool_result'.content = deps'.loaded_references[key].content]_vars
    /\ [][\A k \in DOMAIN deps.loaded_references :
             /\ k \in DOMAIN deps'.loaded_references
             /\ deps'.loaded_references[k] = deps.loaded_references[k]]_vars

\* three callers asked for the same reference: one read, the last two served from
\* the cache
C22_Witness ==
    /\ mode = "cache"
    /\ io.calls = 3
    /\ tool_result = RefReturn("zoning-analysis", "dims.md", "cached", "base dims")
    /\ io.reference_reads[<<"zoning-analysis", "dims.md">>] = 1
    /\ io.manifest_reads = 1
    /\ DOMAIN deps.loaded_skills = {}

\* C23: the reference cache has one slot per (skill_name, reference_name) pair:
\* two different pairs never get the same cache key, so read_reference_tool never
\* returns for one pair the content cached for another (here: a call that returns
\* content returns the content of the file of the pair it was asked for).
C23_OneSlotPerPair ==
    (mode = "cache" /\ tool_result.tool = "read_reference"
        /\ tool_result.outcome \in {"loaded", "cached"}) =>
           /\ tool_result.name \in CatalogSkills
           /\ store.refs[tool_result.name][tool_result.reference] # None
           /\ tool_result.content =
                 store.refs[tool_result.name][tool_result.reference][1]

\* C24: a call that is not served from the cache and asks for a skill name that is
\* not in the catalog returns the unknown-skill error (for read_reference_tool
\* whatever the reference name is); read_reference_tool for a skill of the catalog
\* whose reference file is missing returns the reference-not-found error; in each
\* case loaded_skills and loaded_references stay as they were.
C24_UnknownNames ==
    [][(io'.calls = io.calls + 1 /\ tool_result'.outcome \notin {"raised", "cached"}) =>
          LET res == tool_result'
              cachesUnchanged ==
                  /\ deps'.loaded_skills = deps.loaded_skills
                  /\ deps'.loaded_references = deps.loaded_references
          IN /\ res.name \notin CatalogSkills =>
                   /\ res.outcome = "error"
                   /\ res.content = "Skill not found: " \o res.name
                   /\ cachesUnchanged
             /\ (res.tool = "read_reference" /\ res.name \in CatalogSkills
                    /\ store.refs[res.name][res.reference] = None) =>
                   /\ res.outcome = "error"
                   /\ res.content = "Reference not found: " \o res.name
                                       \o "/references/" \o res.reference
                   /\ cachesUnchanged]_vars

\* with a skill and a reference cached, a reference that does not exist is asked
\* of a skill that does
C24_Witness ==
    /\ mode = "cache"
    /\ tool_result = RefReturn("zoning-analysis:overlay", "overlay:dims.md", "error",
          "Reference not found: zoning-analysis:overlay/references/overlay:dims.md")
    /\ DOMAIN deps.loaded_skills = {"zoning-analysis"}
    /\ DOMAIN deps.loaded_references = {"zoning-analysis:dims.md"}
    /\ io.calls = 3

\* C25: a failure to load the manifest is fatal to the run: it is not turned into
\* a per-stage error note, it reaches the caller of the run (the run ends raised at
\* the first stage that needs the manifest), and no further stage is invoked.
C25_CatalogFailureFatal ==
    (mode = "sequential" /\ store.manifest = "absent") =>
        /\ errors = <<>>
        /\ invoked # ZeroCount =>
               /\ pc = "raised"
               /\ invoked = [ZeroCount EXCEPT !["zoning"] = 1]

\* the error note run_parallel_analysis writes for a failed task
ParallelNote(s) ==
    CASE s = "zoning"    -> "Zoning error: CapabilityError"
      [] s = "valuation" -> "Valuation error: CapabilityError"
      [] s = "permit"    -> "Permit error: CapabilityError"
      [] s = "envelope"  -> "Envelope error: CapabilityError"

NotesOf(s) ==
    Cardinality({i \in DOMAIN errors :
                    errors[i] = IF mode = "parallel" THEN ParallelNote(s) ELSE StageNote(s)})

\* C26: no failure of a stage propagates out of run_property_analysis or
\* run_parallel_analysis: a run in which stage invocations failed ends by returning
\* its state, and every failure is an entry of errors in that state.
C26_StageFailuresRecovered ==
    (RunEnded /\ failed # ZeroCount) =>
        /\ pc = "END"
        /\ \A s \in Stages : NotesOf(s) = failed[s]

\* C27: with all four stage identifiers in completed_agents, route_to_next_agent
\* returns synthesizer if the synthesizer has not run in this run and end once it
\* has run.
C27_RouterAfterAllStages ==
    /\ (mode = "sequential" /\ pc = "node" /\ Stages \subseteq Range(completed_agents)) =>
           (synth_runs = 0 /\ next_agent = "synthesizer")
    /\ (pc = "routed" /\ Stages \subseteq Range(completed_agents)) =>
           next_agent = IF synth_runs = 0 THEN "synthesizer" ELSE "end"

\* C30: parse_front_matter applied to a text that does not start with the
\* front-matter marker returns an empty front-matter map and the whole text as body.
C30_NoLeadingMarker ==
    LET content == store.skills["zoning-analysis"][1]
    IN (mode = "parse" /\ pc = "returned" /\ (content = <<>> \/ content[1] # "---")) =>
          /\ tool_result.front_matter = [kind |-> "map", entries |-> {}]
          /\ tool_result.body = content

\* a text with a well-formed block that is not at its start
C30_Witness ==
    /\ mode = "parse"
    /\ pc = "returned"
    /\ store.skills["zoning-analysis"][1] = <<"v1", "---", "name: skill", "---">>
    /\ tool_result.body = <<"v1", "---", "name: skill", "---">>

\* C28: in both modes a stage reads zoning's district or dims only in a state where
\* zoning has completed successfully: the envelope node of a sequential run is
\* invoked only with zoning in completed_agents, and the phase-2 tasks of a parallel
\* run are handed the dims only after the zoning task succeeded.
C28_ReadsAfterOwnerCompleted ==
    /\ (mode = "sequential" /\ invoked["envelope"] > 0) =>
           "zoning" \in Range(completed_agents)
    /\ (mode = "parallel" /\ Phase2Started) => task["zoning"] = "ok"

\* the fields of the record each stage owns
Slice(s) ==
    CASE s = "zoning"    -> {"zoning_district", "zoning_dims"}
      [] s = "valuation" -> {"arv", "max_bid", "comparable_sales"}
      [] s = "permit"    -> {"permit_history", "open_violations", "permit_risk_score"}
      [] s = "envelope"  -> {"max_buildable_sqft", "max_height", "envelope_generated",
                             "avg_sun_hours"}

\* C29: each field of the record that is written at all is in the slice of exactly
\* one stage (parcel_id and the four fields nothing assigns are in none), and every
\* stage node invocation changes only fields of its own slice; the merges of a
\* parallel run change only fields of the slices of the tasks that succeeded in
\* the phase.
C29_StageWritesOwnSlice ==
    [][LET changed == {f \in DOMAIN property_data : property_data'[f] # property_data[f]}
           unowned == {"parcel_id", "address", "permitted_uses", "assessed_value",
                       "shadow_impact"}
       IN /\ \A f \in DOMAIN property_data \ unowned :
                Cardinality({s \in Stages : f \in Slice(s)}) = 1
          /\ \A s \in Stages : Slice(s) \subseteq DOMAIN property_data \ unowned
          /\ changed \cap unowned = {}
          /\ parcel_id' = parcel_id
          /\ \A s \in Stages :
                (mode = "sequential" /\ invoked'[s] = invoked[s] + 1) =>
                    changed \subseteq Slice(s)
          /\ (mode = "parallel" /\ pc = "phase1" /\ pc' = "phase2") =>
                changed \subseteq UNION {Slice(t) : t \in {u \in Phase1 : task[u] = "ok"}}
          /\ (mode = "parallel" /\ pc = "phase2" /\ pc' = "node") =>
                changed \subseteq UNION {Slice(t) : t \in {u \in Phase2 : task[u] = "ok"}}]_vars

\* every stage node has run and written its slice
C29_Witness ==
    /\ mode = "sequential"
    /\ pc = "route"
    /\ completed_agents = <<"zoning", "valuation", "permit", "envelope">>
    /\ property_data.zoning_district = Some("RS-10")
    /\ property_data.arv = Some(325000)
    /\ property_data.permit_risk_score = 15
    /\ property_data.max_height = Some(35)
    /\ property_data.parcel_id = parcel_id

\* a text that opens with a marker block: the lines between its first two markers
LeadingBlock(text) == SubSeq(text, 2, SecondMarker(text) - 1)
HasLeadingBlock(text) ==
    /\ text # <<>>
    /\ text[1] = Marker
    /\ Cardinality({i \in DOMAIN text : text[i] = Marker}) >= 2

\* C31: parse_front_matter on a text whose leading marker block does not parse as
\* a key/value map returns the empty front-matter map and the whole raw text as
\* body, and the LoadedSkill built from that result is valid, so the load succeeds
C31_MalformedBlockDegrades ==
    pc = "returned" =>
        LET text == store.skills["zoning-analysis"][1]
        IN (HasLeadingBlock(text)
              /\ yaml_safe_load(LeadingBlock(text)).kind \in {"scalar", "error"})
           => /\ tool_result.front_matter = NoFrontMatter
              /\ tool_result.body = text
              /\ LoadedSkillValid(text)

\* the headings of the report, in the order the spec gives its sections
SectionHeadings == <<"# ZoneWise Property Analysis Report", "## Zoning Summary",
                     "## Valuation Summary", "## Permit Analysis",
                     "## Sun/Shadow Analysis", "## Recommendation">>

\* the lines of the report that are the heading h
LinesWith(h) == {k \in DOMAIN final_report[1] : final_report[1][k] = h}

\* C32: the report of synthesizer_node has each of its sections once, in the order
\* header, zoning, valuation, permit, sun/envelope, recommendation, and it ends
\* with an error appendix (a heading after the recommendation, then one line per
\* entry of errors, in order, as its last lines) if and only if errors is
\* non-empty; without errors the recommendation is its last line.
C32_ReportSectionOrder ==
    pc = "END" =>
        LET rep == final_report[1]
            n == Len(rep)
            at(i) == CHOOSE k \in LinesWith(SectionHeadings[i]) : TRUE
        IN /\ \A i \in DOMAIN SectionHeadings :
                 Cardinality(LinesWith(SectionHeadings[i])) = 1
           /\ at(1) = 1
           /\ \A i \in 1..(Len(SectionHeadings) - 1) : at(i) < at(i + 1)
           /\ (LinesWith("## Errors") # {}) <=> (errors # <<>>)
           /\ errors = <<>> => n = at(6) + 1
           /\ errors # <<>> =>
                 /\ LinesWith("## Errors") = {n - Len(errors)}
                 /\ n - Len(errors) = at(6) + 3
                 /\ \A j \in DOMAIN errors : rep[n - Len(errors) + j] = "- " \o errors[j]

C32_Witness ==
    /\ mode = "synth"
    /\ pc = "END"
    /\ errors = <<"Zoning error: CapabilityError", "Permit error: CapabilityError">>
    /\ final_report[1][Len(final_report[1]) - 1] = "- Zoning error: CapabilityError"
    /\ final_report[1][Len(final_report[1])] = "- Permit error: CapabilityError"

\* C33: a read_reference call for a skill of the catalog whose reference file
\* exists returns the reference (freshly loaded with the file's text, or from the
\* cache) and no error, whether or not the name is in the skill's declared
\* references; the case where the catalog itself cannot be loaded is set aside.
C33_UndeclaredReferenceLoads ==
    [][(/\ io'.calls = io.calls + 1
        /\ tool_result'.tool = "read_reference"
        /\ tool_result'.name \in CatalogSkills
        /\ store.refs[tool_result'.name][tool_result'.reference] # None
        /\ ~(deps.manifest = None /\ store.manifest = "absent"))
       => /\ tool_result'.outcome \in {"loaded", "cached"}
          /\ tool_result'.outcome = "loaded" =>
                tool_result'.content
                   = store.refs[tool_result'.name][tool_result'.reference][1]]_vars

C33_Witness ==
    /\ mode = "cache"
    /\ tool_result.tool = "read_reference"
    /\ tool_result.name = "zoning-analysis"
    /\ tool_result.reference = "overlay:dims.md"
    /\ tool_result.reference \notin DeclaredReferences[tool_result.name]
    /\ tool_result.outcome = "loaded"
    /\ tool_result.content = "base overlay dims"

\* the lists a restarted run can rebuild from a set of completed identifiers: its
\* members once each, in any order
Reconstructions(done) == {o \in [1..Cardinality(done) -> done] : Range(o) = done}

\* the stages the router picks one after the other from a completed list when each
\* picked stage completes, up to its first answer that is no stage
RECURSIVE StagesFrom(_)
StagesFrom(completed) ==
    LET answer == route_to_next_agent(completed)
    IN IF answer \in Stages THEN <<answer>> \o StagesFrom(Append(completed, answer))
       ELSE <<answer>>

\* C34: route_to_next_agent is deterministic and free of side effects: its answer
\* is the one it gives on every list rebuilt from the same set of completed
\* identifiers, the stages that follow from such a list are the same too, and a
\* call changes no field of the state (next_agent holds the answer of the call).
C34_RouterPure ==
    /\ [](pc = "returned" =>
             \A other \in Reconstructions(Range(completed_agents)) :
                 /\ route_to_next_agent(other) = next_agent
                 /\ StagesFrom(other) = StagesFrom(completed_agents))
    /\ [][(pc = "call" /\ pc' = "returned") =>
             UNCHANGED <<parcel_id, property_data, completed_agents, errors, messages,
                         final_report, timestamp>>]_vars

C34_Witness ==
    /\ mode = "router"
    /\ pc = "returned"
    /\ completed_agents = <<"permit", "zoning", "permit">>
    /\ next_agent = "valuation"
    /\ StagesFrom(<<"zoning", "permit">>) = <<"valuation", "envelope", "synthesizer">>

\* the narration a stage node appends on success, as the source spells it for the
\* values the agents return here
StageNarration(s) ==
    CASE s = "zoning"    -> "[Zoning Agent] Analyzed zoning for " \o parcel_id \o ": RS-10"
      [] s = "valuation" -> "[Valuation Agent] ARV: $325000, Max Bid: $165000"
      [] s = "permit"    -> "[Permit Agent] Risk score: 15/100, No open violations"
      [] s = "envelope"  -> "[Envelope Agent] Max buildable: 2500 sqft, Generated 3D envelope"

\* C35: a stage node invocation that succeeds appends its stage identifier to
\* completed_agents, appends exactly one narration (its own) to messages and
\* leaves errors unchanged.
C35_SuccessfulStageEffect ==
    [][\A s \in Stages :
          (mode = "sequential" /\ invoked'[s] = invoked[s] + 1 /\ failed'[s] = failed[s])
          => /\ completed_agents' = Append(completed_agents, s)
             /\ messages' = Append(messages, StageNarration(s))
             /\ errors' = errors]_vars

C35_Witness ==
    /\ mode = "sequential"
    /\ failed["zoning"] = 1
    /\ invoked["zoning"] = 2
    /\ completed_agents = <<"zoning">>
    /\ messages = <<"Analyze property: " \o parcel_id, StageNarration("zoning")>>
    /\ errors = <<"Zoning agent error: CapabilityError">>
    /\ property_data.zoning_district = Some("RS-10")

\* how many times the identifier s stands in a completed list
Occurrences(s, completed) == Cardinality({i \in DOMAIN completed : completed[i] = s})

\* C36: in any run, in either mode, every step leaves the previous errors list as
\* a prefix of the new one, and leaves every identifier in completed_agents at
\* least as many times as it was there.
C36_ErrorsAndCompletedOnlyGrow ==
    [][/\ Len(errors') >= Len(errors)
       /\ SubSeq(errors', 1, Len(errors)) = errors
       /\ \A s \in Range(completed_agents) :
             Occurrences(s, completed_agents') >= Occurrences(s, completed_agents)]_vars

C36_Witness ==
    /\ mode = "sequential"
    /\ errors = <<"Zoning agent error: CapabilityError",
                  "Valuation agent error: CapabilityError",
                  "Valuation agent error: CapabilityError">>
    /\ completed_agents = <<"zoning", "valuation", "permit">>

\* C37: in any run final_report is set exactly once: it is set at some point of
\* the run, a step that changes it is the synthesizer's and finds it unset, and
\* once the synthesizer has run no step changes property_data, completed_agents
\* or errors.
C37_ReportSetOnceThenFrozen ==
    /\ <>(final_report # None)
    /\ [][final_report' # final_report =>
             (final_report = None /\ synth_runs' = synth_runs + 1)]_vars
    /\ [][synth_runs > 0 => UNCHANGED <<property_data, completed_agents, errors>>]_vars

\* C38: an entry of loaded_skills or loaded_references, once there, stays there
\* with the same value through every step: calls of either tool that hit the
\* cache, load another key or fail, and changes of the files in between.
C38_CacheEntriesImmutable ==
    [][/\ DOMAIN deps.loaded_skills \subseteq DOMAIN deps'.loaded_skills
       /\ DOMAIN deps.loaded_references \subseteq DOMAIN deps'.loaded_references
       /\ \A n \in DOMAIN deps.loaded_skills :
             deps'.loaded_skills[n] = deps.loaded_skills[n]
       /\ \A k \in DOMAIN deps.loaded_references :
             deps'.loaded_references[k] = deps.loaded_references[k]]_vars

\* a skill and a reference are cached, the skill's file has changed since, and a
\* later call for another name has failed
C38_Witness ==
    /\ mode = "cache"
    /\ io.calls = 3
    /\ tool_result.outcome = "error"
    /\ tool_result.name = "no-such-skill"
    /\ "zoning-analysis" \in DOMAIN deps.loaded_skills
    /\ deps.loaded_skills["zoning-analysis"].content = "v1"
    /\ store.skills["zoning-analysis"] = Some(Document("valid", "v2"))
    /\ cache_key("zoning-analysis", "dims.md") \in DOMAIN deps.loaded_references

\* C39: a stage node invocation that fails leaves every field of property_data as
\* it was, the fields of the stage's own slice included.
C39_FailedStageWritesNothing ==
    [][\A s \in Stages :
          (mode = "sequential" /\ invoked'[s] = invoked[s] + 1
              /\ failed'[s] = failed[s] + 1)
          => property_data' = property_data]_vars

\* envelope failed after the three other stages had written their slices: those
\* are kept and the envelope slice is still unset
C39_Witness ==
    /\ mode = "sequential"
    /\ pc = "route"
    /\ completed_agents = <<"zoning", "valuation", "permit">>
    /\ failed["envelope"] = 1
    /\ errors = <<"Envelope agent error: CapabilityError">>
    /\ property_data.zoning_district = Some("RS-10")
    /\ property_data.arv = Some(325000)
    /\ property_data.permit_risk_score = 15
    /\ property_data.max_buildable_sqft = None
    /\ property_data.max_height = None
    /\ ~property_data.envelope_generated
    /\ property_data.avg_sun_hours = None

\* C40: in a sequential run, driven by the router, no identifier stands twice in
\* completed_agents, and a stage node is entered only in a state where its
\* identifier is not in completed_agents.
C40_NoDuplicateCompleted ==
    /\ [](mode = "sequential" =>
             \A i, j \in DOMAIN completed_agents :
                 completed_agents[i] = completed_agents[j] => i = j)
    /\ [][\A s \in Stages :
             (mode = "sequential" /\ invoked'[s] = invoked[s] + 1) =>
                 s \notin Range(completed_agents)]_vars

\* valuation was invoked three times and completed on the third: it stands once
C40_Witness ==
    /\ mode = "sequential"
    /\ invoked["valuation"] = 3
    /\ failed["valuation"] = 2
    /\ completed_agents = <<"zoning", "valuation", "permit", "envelope">>

====
